---------------------------- MODULE Spec2Model ----------------------------
(***************************************************************************)
(* State-machine model of the STEER evaluation harness:                    *)
(*   src/utils/inference_utils.py  (retry decorator, response engine,      *)
(*                                  results aggregation, orchestrator)     *)
(*   src/utils/model_utils.py      (hosted-API client, local model loader) *)
(*                                                                         *)
(* The module holds one specification per component, all over the same     *)
(* variables; a component's specification leaves the other components'     *)
(* variables at their parked initial values.                               *)
(*   SpecBackoff  exponential_backoff_decorator                            *)
(*   SpecAnswer   GPTClient.get_answer                                     *)
(*   SpecLoad     build_kwargs / load_model / load_model_tokenizer         *)
(*   SpecResp     get_response / get_response_hf                           *)
(*   SpecEval     eval_models (with create_results_dict)                   *)
(***************************************************************************)
EXTENDS Integers, Sequences, FiniteSets, TLC

VARIABLES
    \* ---- exponential_backoff_decorator: one call of wrapper() ----
    b_pc,          \* "loop" | "returned"        (position in wrapper)
    b_max_retries, \* decorator argument max_retries
    b_base_delay,  \* decorator argument base_delay
    b_retries,     \* local variable retries
    b_calls,       \* number of times func was invoked
    b_raised,      \* number of those invocations that raised
    b_delay,       \* last value passed to time.sleep (0 before any)
    b_result,      \* value returned by wrapper ("None" when it falls off the loop)
    \* ---- GPTClient.get_answer: one call ----
    a_pc,          \* "scan" | "normalize" | "returned" | "raised"
    a_valid,       \* argument valid_tokens (sequence of tokens)
    a_cands,       \* top_responses: sequence of [token, pct], pct = exp(logprob)*100
    a_i,           \* position of the loop over top_responses (1-based)
    a_output,      \* the dict output, in insertion order: sequence of [key, val]
    a_answer,      \* first component of the returned pair
    a_dist,        \* second component of the returned pair
    \* ---- load_model_tokenizer: one call ----
    l_pc,          \* "build_kwargs" | "listdir" | "load_model" | "to_device" | "returned" | "raised"
    l_device,      \* argument device
    l_num_gpus,    \* argument num_gpus
    l_max_gpu_mem, \* argument max_gpu_mem (GiB; NoCap for None)
    l_fs,          \* the checkpoint on disk: [dir, snapshots, entries, entry_exists]
    l_kwargs,      \* local variable kwargs
    l_result,      \* the returned pair <<model, tokenizer>>
    l_error,       \* the exception that left load_model_tokenizer, or None
    l_caught,      \* the exception caught inside it, or None
    l_moved,       \* model.to(device) was called
    \* ---- get_response / get_response_hf: one call (with its retries) ----
    r_pc,          \* "loop" | "returned" | "raised"
    r_hf,          \* TRUE: get_response_hf, FALSE: get_response
    r_question_type, \* argument question_type
    r_n,           \* len(questions)
    r_options,     \* options_lst: the number of options of each question
    r_i,           \* loop index i (0-based, as in the code)
    r_outputs,     \* local variable outputs
    r_parsed,      \* local variable parsed_results: sequence of <<explanation, answer, probs>>
    r_ret,         \* the returned value, np.array(parsed_results).T.tolist()
    r_error,       \* the exception that left the call, or None
    r_steps,       \* what each index did in this attempt: sequence of [kind, opt, reply]
    r_attempts,    \* times the body was started (1 + rate-limit retries)
    \* ---- eval_models: runs of the orchestrator over the persisted tables ----
    e_pc,          \* "idle" | "model" | "params" | "bases" | "raised"
    e_api,         \* argument api of this run (hosted API, else local device)
    e_run,         \* number of runs started
    e_target,      \* the configured number of rows (args)
    e_num_sample,  \* args['num_sample']
    e_loadable,    \* the model whose checkpoint under MODEL_PATH can be loaded
    e_rank,        \* which rows sample(random_state=42) prefers: a ranking of the rows
    e_mi,          \* position in model_names (1-based)
    e_results_file,  \* per model: the rows of {model}.pkl (empty: no file or no row)
    e_metadata_file, \* per model: the rows of {model}_metadata.pkl
    e_results_df,  \* results_df of the current model
    e_results_metadata, \* results_metadata of the current model
    e_uncompleted, \* question ids of the tables get_uncompleted_dfs returned
    e_pi,          \* position in param_grid (1-based)
    e_sampled,     \* sampled_qids
    e_order,       \* this run's iteration order of a set of base ids: a ranking
    e_base_ids,    \* base ids of the combination still to be iterated
    e_skipped,     \* this run: models skipped as already evaluated
    e_events,      \* this run: <<"client"|"load"|"write", model>>, <<"engine", model, base>>
    e_recorded,    \* current model: base ids with a row in the loaded results table
    e_last,        \* last processed base id: what the engine returned, the rows appended
    e_badreq,      \* this run: <<model, combination, base id>> skipped on BadRequestError
    e_error        \* the exception that left eval_models, or None

backoffVars == <<b_pc, b_max_retries, b_base_delay, b_retries, b_calls,
                 b_raised, b_delay, b_result>>

answerVars == <<a_pc, a_valid, a_cands, a_i, a_output, a_answer, a_dist>>

loadVars == <<l_pc, l_device, l_num_gpus, l_max_gpu_mem, l_fs, l_kwargs,
              l_result, l_error, l_caught, l_moved>>

respVars == <<r_pc, r_hf, r_question_type, r_n, r_options, r_i, r_outputs,
              r_parsed, r_ret, r_error, r_steps, r_attempts>>

evalVars == <<e_pc, e_api, e_run, e_target, e_num_sample, e_loadable, e_rank, e_mi, e_results_file, e_metadata_file,
              e_results_df, e_results_metadata, e_uncompleted, e_pi, e_sampled,
              e_order, e_base_ids, e_skipped, e_events, e_recorded, e_last,
              e_badreq, e_error>>

vars == <<backoffVars, answerVars, loadVars, respVars, evalVars>>

\* what each component's actions leave alone
notBackoff == <<answerVars, loadVars, respVars, evalVars>>
notAnswer == <<backoffVars, loadVars, respVars, evalVars>>
notLoad == <<backoffVars, answerVars, respVars, evalVars>>
notResp == <<backoffVars, answerVars, loadVars, evalVars>>
notEval == <<backoffVars, answerVars, loadVars, respVars>>

None == "None"

(***************************************************************************)
(*                          GPTClient.get_answer                           *)
(* Tokens are sequences of characters, so that str.upper and               *)
(* str.startswith are computed and not assumed.  A candidate carries       *)
(* pct = exp(logprob) * 100 as a whole number of percent.                  *)
(***************************************************************************)
MaxOptions == 3
MaxCands == 3

\* inference_utils.py line 26: OPTIONS = list(ascii_uppercase) (first letters)
OPTIONS == <<"A", "B", "C", "D", "E">>

\* get_option_letters(options_lst)[i]: the first n upper-case letters, one
\* single-character token per option
OptionLetters(n) == [k \in 1..n |-> <<OPTIONS[k]>>]

\* str.upper on one character
UpperChar(c) ==
    CASE c = "a" -> "A" [] c = "b" -> "B" [] c = "c" -> "C" [] OTHER -> c

\* str.upper
Upper(tok) == [k \in 1..Len(tok) |-> UpperChar(tok[k])]

\* str.startswith
StartsWith(s, prefix) ==
    /\ Len(prefix) <= Len(s)
    /\ \A k \in 1..Len(prefix) : s[k] = prefix[k]

\* candidate tokens the service may return: upper case, lower case,
\* multi-character, empty, and a letter that is no option
CandTokens == {<<"A">>, <<"B">>, <<"a">>, <<"A", "B">>, <<>>}
CandPcts == {10, 30, 50}

\* top_logprobs of the first generated token: distinct tokens, most likely
\* first, at most 100 percent in all
RECURSIVE SumPct(_)
SumPct(cs) == IF cs = <<>> THEN 0 ELSE cs[1].pct + SumPct(Tail(cs))

TopResponses ==
    {cs \in UNION {[1..n -> [token : CandTokens, pct : CandPcts]] : n \in 0..MaxCands} :
        /\ \A x, y \in 1..Len(cs) : x < y =>
              (cs[x].token # cs[y].token /\ cs[x].pct >= cs[y].pct)
        /\ SumPct(cs) <= 100}

DictKeys(d) == {d[k].key : k \in 1..Len(d)}

\* line 109, output[key] = val: overwrite in place, or insert at the end
DictSet(d, key, val) ==
    IF key \in DictKeys(d)
    THEN [k \in 1..Len(d) |-> IF d[k].key = key THEN [key |-> key, val |-> val] ELSE d[k]]
    ELSE Append(d, [key |-> key, val |-> val])

\* lines 107-109: for valid_token in valid_tokens: if
\* valid_token.startswith(logprob.token.upper()): output[logprob.token] = ...
ScanCandidate(output, valid_tokens, cand) ==
    LET RECURSIVE Inner(_, _)
        Inner(out, k) ==
            IF k > Len(valid_tokens) THEN out
            ELSE IF StartsWith(valid_tokens[k], Upper(cand.token))
                 THEN Inner(DictSet(out, cand.token, cand.pct), k + 1)
                 ELSE Inner(out, k + 1)
    IN Inner(output, 1)

RECURSIVE DictTotal(_)
DictTotal(d) == IF d = <<>> THEN 0 ELSE d[1].val + DictTotal(Tail(d))

\* normalize_dict: rescale the values to the total 100, keys and order kept
normalize_dict(d) ==
    [k \in 1..Len(d) |-> [key |-> d[k].key, val |-> (d[k].val * 100) \div DictTotal(d)]]

\* line 113, max(output, key=output.get): the first key, in insertion
\* order, whose value is largest
MaxKey(d) ==
    LET best == CHOOSE k \in 1..Len(d) :
                   /\ \A m \in 1..Len(d) : d[m].val <= d[k].val
                   /\ \A m \in 1..(k - 1) : d[m].val < d[k].val
    IN d[best].key

AnswerParked ==
    /\ a_pc = "off" /\ a_valid = <<>> /\ a_cands = <<>> /\ a_i = 0
    /\ a_output = <<>> /\ a_answer = "unset" /\ a_dist = <<>>

\* lines 93-105: the completion came back; output = defaultdict(lambda: 0)
AnswerInit ==
    /\ a_pc = "scan"
    /\ a_valid \in {OptionLetters(n) : n \in 2..MaxOptions}
    /\ a_cands \in TopResponses
    /\ a_i = 1
    /\ a_output = <<>>
    /\ a_answer = "unset"
    /\ a_dist = <<>>

\* lines 106-111: one round of the loop over top_responses, with its break
AnswerScan ==
    /\ a_pc = "scan"
    /\ a_i <= Len(a_cands)
    /\ a_output' = ScanCandidate(a_output, a_valid, a_cands[a_i])
    /\ IF Len(a_output') = Len(a_valid)
       THEN a_pc' = "normalize" /\ a_i' = a_i
       ELSE a_pc' = "scan" /\ a_i' = a_i + 1
    /\ UNCHANGED <<a_valid, a_cands, a_answer, a_dist>>
    /\ UNCHANGED notAnswer

\* line 106: top_responses is exhausted
AnswerScanEnd ==
    /\ a_pc = "scan"
    /\ a_i > Len(a_cands)
    /\ a_pc' = "normalize"
    /\ UNCHANGED <<a_valid, a_cands, a_i, a_output, a_answer, a_dist>>
    /\ UNCHANGED notAnswer

\* lines 112-113: normalize, take the largest, return the pair
AnswerReturn ==
    /\ a_pc = "normalize"
    /\ a_output # <<>>
    /\ a_dist' = normalize_dict(a_output)
    /\ a_answer' = MaxKey(a_dist')
    /\ a_pc' = "returned"
    /\ UNCHANGED <<a_valid, a_cands, a_i, a_output>>
    /\ UNCHANGED notAnswer

\* lines 112-113 with nothing matched: max() of an empty dict raises ValueError
AnswerRaise ==
    /\ a_pc = "normalize"
    /\ a_output = <<>>
    /\ a_pc' = "raised"
    /\ UNCHANGED <<a_valid, a_cands, a_i, a_output, a_answer, a_dist>>
    /\ UNCHANGED notAnswer

AnswerNext == AnswerScan \/ AnswerScanEnd \/ AnswerReturn \/ AnswerRaise

(***************************************************************************)
(*            build_kwargs / load_model / load_model_tokenizer             *)
(***************************************************************************)
MaxGpus == 2
Devices == {"cpu", "cuda", "tpu"}
\* max_gpu_mem in GiB; NoCap stands for max_gpu_mem = None
NoCap == 0
GpuMemCaps == {NoCap, 10}
FreeGiB == {10, 24}

\* the checkpoint directory as os.listdir / os.path.exists see it; a listed
\* entry that does not exist is a dangling snapshot link
FileSystems ==
    {fs \in [dir : BOOLEAN, snapshots : BOOLEAN, entries : 0..1, entry_exists : BOOLEAN] :
        /\ (~fs.dir => ~fs.snapshots)
        /\ (~fs.snapshots => fs.entries = 0)
        /\ (fs.entries = 0 => ~fs.entry_exists)}

\* line 155: int(available_gpu_memory[i] * 0.85), in GiB
CapOfFree(free) == (free * 85) \div 100

\* a kwargs dict: the keys it holds, and their values ("" and <<>> under a
\* key it does not hold)
Kwargs(dtype) ==
    [keys |-> {"torch_dtype"}, torch_dtype |-> dtype, device_map |-> "",
     max_memory |-> <<>>]
NoKwargs == [keys |-> {}, torch_dtype |-> "", device_map |-> "", max_memory |-> <<>>]
\* line 159: raise ValueError(f"Invalid device: {device}")
InvalidDevice == [keys |-> {"ValueError"}, torch_dtype |-> "", device_map |-> "",
                  max_memory |-> <<>>]

\* lines 158-159 left out: every device is given the cpu options
build_kwargsAnyDevice(device, num_gpus, max_gpu_mem, available_gpu_memory) ==
    Kwargs("float32")

\* lines 145-161
build_kwargs(device, num_gpus, max_gpu_mem, available_gpu_memory) ==
    IF device = "cpu"
    THEN Kwargs("float32")
    ELSE IF device = "cuda"
    THEN IF num_gpus # 1
         THEN IF max_gpu_mem = NoCap
              THEN [keys |-> {"torch_dtype", "device_map", "max_memory"},
                    torch_dtype |-> "float16", device_map |-> "sequential",
                    max_memory |-> [g \in 0..(num_gpus - 1) |->
                                        CapOfFree(available_gpu_memory[g])]]
              ELSE [keys |-> {"torch_dtype", "device_map", "max_memory"},
                    torch_dtype |-> "float16", device_map |-> "auto",
                    max_memory |-> [g \in 0..(num_gpus - 1) |-> max_gpu_mem]]
         ELSE Kwargs("float16")
    ELSE InvalidDevice

\* lines 166-167: os.listdir(model_path + 'snapshots/')[0]
ListdirOutcome(fs) ==
    IF ~fs.dir \/ ~fs.snapshots THEN "FileNotFoundError"
    ELSE IF fs.entries = 0 THEN "IndexError"
    ELSE "ok"

TokenizerOutcomes == {"ok", "OSError"}
CausalOutcomes == {"ok", "NameError", "OSError"}
FallbackOutcomes == {"ok", "OSError"}

\* lines 133-142: "false" is the pair (False, False), "model" a loaded pair,
\* anything else the exception that leaves load_model
load_model(fs, tok, causal, fallback) ==
    IF ~fs.entry_exists THEN "false"
    ELSE IF tok # "ok" THEN tok
    ELSE IF causal = "ok" THEN "model"
    ELSE IF causal = "NameError"
         THEN (IF fallback = "ok" THEN "model" ELSE fallback)
    ELSE causal

\* line 176: (device == "cuda" and num_gpus == 1) and model != False
MovesToDevice(device, num_gpus, loaded) ==
    device = "cuda" /\ num_gpus = 1 /\ loaded

LoadParked ==
    /\ l_pc = "off" /\ l_device = "cpu" /\ l_num_gpus = 0 /\ l_max_gpu_mem = NoCap
    /\ l_fs = [dir |-> FALSE, snapshots |-> FALSE, entries |-> 0, entry_exists |-> FALSE]
    /\ l_kwargs = NoKwargs /\ l_result = <<>> /\ l_error = None /\ l_caught = None
    /\ l_moved = FALSE

\* line 163: the call is entered
LoadInit ==
    /\ l_pc = "build_kwargs"
    /\ l_device \in Devices
    /\ l_num_gpus \in 0..MaxGpus
    /\ l_max_gpu_mem \in GpuMemCaps
    /\ l_fs \in FileSystems
    /\ l_kwargs = NoKwargs
    /\ l_result = <<>>
    /\ l_error = None
    /\ l_caught = None
    /\ l_moved = FALSE

\* line 164: kwargs = build_kwargs(...); free memory is queried live
LoadBuildKwargs ==
    /\ l_pc = "build_kwargs"
    /\ \E free \in [0..(l_num_gpus - 1) -> FreeGiB] :
         LET kw == build_kwargs(l_device, l_num_gpus, l_max_gpu_mem, free)
         IN IF kw = InvalidDevice
            THEN l_pc' = "raised" /\ l_error' = "ValueError" /\ l_kwargs' = l_kwargs
            ELSE l_pc' = "listdir" /\ l_error' = l_error /\ l_kwargs' = kw
    /\ UNCHANGED <<l_device, l_num_gpus, l_max_gpu_mem, l_fs, l_result, l_caught,
                   l_moved>>
    /\ UNCHANGED notLoad

\* lines 166-168: resolve the first snapshot entry (outside the try block)
LoadListdir ==
    /\ l_pc = "listdir"
    /\ LET r == ListdirOutcome(l_fs)
       IN IF r = "ok"
          THEN l_pc' = "load_model" /\ l_error' = l_error
          ELSE l_pc' = "raised" /\ l_error' = r
    /\ UNCHANGED <<l_device, l_num_gpus, l_max_gpu_mem, l_fs, l_kwargs, l_result,
                   l_caught, l_moved>>
    /\ UNCHANGED notLoad

\* lines 169-176 and 179: load inside try/except; return unless the model
\* has to be moved to the single device
LoadModel ==
    /\ l_pc = "load_model"
    /\ \E tok \in TokenizerOutcomes, causal \in CausalOutcomes, fallback \in FallbackOutcomes :
         LET r == load_model(l_fs, tok, causal, fallback)
         IN /\ l_caught' = IF r \in {"model", "false"} THEN None ELSE r
            /\ l_result' = IF r = "model" THEN <<"model", "tokenizer">>
                           ELSE <<FALSE, FALSE>>
            /\ l_pc' = IF MovesToDevice(l_device, l_num_gpus, r = "model")
                       THEN "to_device" ELSE "returned"
    /\ UNCHANGED <<l_device, l_num_gpus, l_max_gpu_mem, l_fs, l_kwargs, l_error,
                   l_moved>>
    /\ UNCHANGED notLoad

\* lines 177-179: model.to(device), then return
LoadToDevice ==
    /\ l_pc = "to_device"
    /\ l_moved' = TRUE
    /\ l_pc' = "returned"
    /\ UNCHANGED <<l_device, l_num_gpus, l_max_gpu_mem, l_fs, l_kwargs, l_result,
                   l_error, l_caught>>
    /\ UNCHANGED notLoad

LoadNext == LoadBuildKwargs \/ LoadListdir \/ LoadModel \/ LoadToDevice

(***************************************************************************)
(*                     get_response / get_response_hf                      *)
(* Questions are numbered 0..n-1 as in the code; sequences are 1-based,    *)
(* so Python's outputs[i-1] is outputs[i] here.  A backend step returns a  *)
(* reply [text, answer, probs]: free text for an explanation step, the     *)
(* pair (answer, probs) for an answer step.                                *)
(***************************************************************************)
MaxQuestions == 4
MaxRateLimits == 1
QuestionTypes == {"mc", "mc-separate", "explanation", "sequential-hidden", "sequential-shown"}
OptionCounts == {2, 3}
Texts == {"e1", "e2"}
ProbDists == {"p1", "p2"}
NoProbs == "defaultdict"
Letters(k) == {OPTIONS[j] : j \in 1..k}

Sequential(question_type) ==
    question_type = "sequential-hidden" \/ question_type = "sequential-shown"

\* get_response lines 71, 77, 85, 90: the branch taken at index i
StepKindApi(question_type, i) ==
    IF question_type = "mc" THEN "answer"
    ELSE IF question_type = "explanation" THEN "explain_answer"
    ELSE IF i % 2 = 0 /\ Sequential(question_type) THEN "explain"
    ELSE IF i % 2 = 1 /\ Sequential(question_type) THEN "answer_after"
    ELSE "none"

\* get_response_hf lines 107, 112, 123, 127: the branch taken at index i
StepKindHf(question_type, i) ==
    IF question_type = "mc" \/ question_type = "mc-separate" THEN "answer"
    ELSE IF question_type = "explanation" THEN "explain_answer"
    ELSE IF i % 2 = 0 /\ Sequential(question_type) THEN "explain"
    ELSE IF i % 2 = 1 /\ Sequential(question_type) THEN "answer_after"
    ELSE "none"

StepKind(hf, question_type, i) ==
    IF hf THEN StepKindHf(question_type, i) ELSE StepKindApi(question_type, i)

\* the index into options_lst an answer step uses (0-based):
\* get_response lines 72 and 91, get_response_hf lines 108, 117 and 128
OptionIndex(hf, kind, i) ==
    IF ~hf /\ kind = "answer_after" THEN i \div 2 ELSE i

\* parse_response (hosted path) / find_answer_letter (local path): the option
\* letter read out of a free text
ParsedLetter(text) == IF text = "e1" THEN "A" ELSE "B"

\* what the backend can reply at a step of this kind, the question having k options
Replies(kind, k) ==
    IF kind = "answer" \/ kind = "answer_after"
    THEN [text : {""}, answer : Letters(k), probs : ProbDists]
    ELSE IF kind = "explain"
    THEN [text : Texts, answer : {""}, probs : {NoProbs}]
    ELSE IF kind = "explain_answer"
    THEN [text : Texts, answer : {""}, probs : ProbDists]
    ELSE [text : {""}, answer : {""}, probs : {NoProbs}]

\* lines 73, 80, 87, 92 (109, 114, 125, 129): outputs.append(...)
OutputsAfter(kind, reply, outputs) ==
    IF kind = "answer" \/ kind = "answer_after" THEN Append(outputs, reply.answer)
    ELSE IF kind = "explain" \/ kind = "explain_answer" THEN Append(outputs, reply.text)
    ELSE outputs

\* lines 93 and 130 pairing the record with this index's own output
ParsedAfterPairsOwnIndex(hf, kind, i, reply, outputs, parsed) ==
    IF kind = "answer" THEN Append(parsed, <<"", reply.answer, reply.probs>>)
    ELSE IF kind = "explain_answer"
    THEN Append(parsed, <<reply.text, ParsedLetter(reply.text),
                          IF hf THEN reply.probs ELSE NoProbs>>)
    ELSE IF kind = "answer_after"
    THEN Append(parsed, <<reply.answer, reply.answer, reply.probs>>)
    ELSE parsed

\* lines 74, 81, 93 (110, 121, 130): parsed_results.append(...); outputs is
\* the list after this index's append, so outputs[i-1] is the previous output
ParsedAfter(hf, kind, i, reply, outputs, parsed) ==
    IF kind = "answer" THEN Append(parsed, <<"", reply.answer, reply.probs>>)
    ELSE IF kind = "explain_answer"
    THEN Append(parsed, <<reply.text, ParsedLetter(reply.text),
                          IF hf THEN reply.probs ELSE NoProbs>>)
    ELSE IF kind = "answer_after"
    THEN Append(parsed, <<outputs[i], reply.answer, reply.probs>>)
    ELSE parsed

\* lines 95 and 134, np.array(parsed_results).T.tolist(): three parallel
\* lists, and the empty list when there is no record
Transposed(parsed) ==
    IF parsed = <<>> THEN <<>>
    ELSE << [k \in 1..Len(parsed) |-> parsed[k][1]],
            [k \in 1..Len(parsed) |-> parsed[k][2]],
            [k \in 1..Len(parsed) |-> parsed[k][3]] >>

RespParked ==
    /\ r_pc = "off" /\ r_hf = FALSE /\ r_question_type = "mc" /\ r_n = 0
    /\ r_options = <<>> /\ r_i = 0 /\ r_outputs = <<>> /\ r_parsed = <<>>
    /\ r_ret = <<>> /\ r_error = None /\ r_steps = <<>> /\ r_attempts = 0

\* lines 58-60 (97-99): the call is entered with one option list per question
RespInit ==
    /\ r_pc = "loop"
    /\ r_hf \in BOOLEAN
    /\ r_question_type \in QuestionTypes
    /\ r_n \in 0..MaxQuestions
    /\ r_options \in [1..r_n -> OptionCounts]
    /\ r_i = 0
    /\ r_outputs = <<>>
    /\ r_parsed = <<>>
    /\ r_ret = <<>>
    /\ r_error = None
    /\ r_steps = <<>>
    /\ r_attempts = 1

\* lines 62-93 (101-130): one round of the loop, the backend call succeeding
RespStep ==
    /\ r_pc = "loop"
    /\ r_i < r_n
    /\ LET kind == StepKind(r_hf, r_question_type, r_i)
           opt == OptionIndex(r_hf, kind, r_i)
       IN \E reply \in Replies(kind, r_options[opt + 1]) :
            /\ r_outputs' = OutputsAfter(kind, reply, r_outputs)
            /\ r_parsed' = ParsedAfter(r_hf, kind, r_i, reply, r_outputs', r_parsed)
            /\ r_steps' = Append(r_steps, [kind |-> kind, opt |-> opt, reply |-> reply])
    /\ r_i' = r_i + 1
    /\ UNCHANGED <<r_pc, r_hf, r_question_type, r_n, r_options, r_ret, r_error,
                   r_attempts>>
    /\ UNCHANGED notResp

\* lines 72, 78, 86, 91: the hosted service rejects the request; the
\* BadRequestError leaves get_response
RespBadRequest ==
    /\ r_pc = "loop"
    /\ r_i < r_n
    /\ ~r_hf
    /\ StepKindApi(r_question_type, r_i) # "none"
    /\ r_pc' = "raised"
    /\ r_error' = "BadRequestError"
    /\ UNCHANGED <<r_hf, r_question_type, r_n, r_options, r_i, r_outputs, r_parsed,
                   r_ret, r_steps, r_attempts>>
    /\ UNCHANGED notResp

\* the retry going on with the records of the attempt that was cut short
RespRateLimitKeepsRecords ==
    /\ r_pc = "loop"
    /\ r_i < r_n
    /\ ~r_hf
    /\ StepKindApi(r_question_type, r_i) # "none"
    /\ r_attempts <= MaxRateLimits
    /\ r_attempts' = r_attempts + 1
    /\ r_i' = 0
    /\ r_outputs' = <<>>
    /\ r_steps' = <<>>
    /\ UNCHANGED <<r_pc, r_hf, r_question_type, r_n, r_options, r_parsed, r_ret, r_error>>
    /\ UNCHANGED notResp

\* line 57, backoff.on_exception(backoff.expo, openai.RateLimitError): a
\* RateLimitError leaves the body and get_response is called again
RespRateLimit ==
    /\ r_pc = "loop"
    /\ r_i < r_n
    /\ ~r_hf
    /\ StepKindApi(r_question_type, r_i) # "none"
    /\ r_attempts <= MaxRateLimits
    /\ r_attempts' = r_attempts + 1
    /\ r_i' = 0
    /\ r_outputs' = <<>>
    /\ r_parsed' = <<>>
    /\ r_steps' = <<>>
    /\ UNCHANGED <<r_pc, r_hf, r_question_type, r_n, r_options, r_ret, r_error>>
    /\ UNCHANGED notResp

\* lines 95 and 134: return the transposed records
RespReturn ==
    /\ r_pc = "loop"
    /\ r_i = r_n
    /\ r_ret' = Transposed(r_parsed)
    /\ r_pc' = "returned"
    /\ UNCHANGED <<r_hf, r_question_type, r_n, r_options, r_i, r_outputs, r_parsed,
                   r_error, r_steps, r_attempts>>
    /\ UNCHANGED notResp

RespNext == RespStep \/ RespBadRequest \/ RespRateLimit \/ RespReturn

(***************************************************************************)
(*                  create_results_dict / eval_models                      *)
(* A question id "{base}_{sub}" is the pair <<base, sub>>.  A results row  *)
(* keeps the columns the engine and the aggregation fill in; a metadata    *)
(* row keeps question_id and permutation.                                  *)
(* A behaviour is a sequence of runs of eval_models under one              *)
(* configuration (row target, num_sample) against the files left by the    *)
(* earlier runs; each run is hosted or local.  Of the configured models    *)
(* one has a checkpoint that can be loaded; loading any model can return   *)
(* (False, False) or raise.  sample(random_state=42) draws the same rows   *)
(* from the same table in every run; the order in which a set of base ids  *)
(* is iterated is fixed within a run.                                      *)
(***************************************************************************)
MaxRuns == 2
NumSample == 2
TargetRows == 4
\* the row counts the runs can be configured with
TargetChoices == {TargetRows, TargetRows + 2}

\* args['models'].keys(), in mapping order (line 176)
ModelNames == <<"m1", "m2">>
NumModels == Len(ModelNames)

\* lines 210-240, the parameter grid in generation order
ParamGrid == << [num_shots |-> 0, allow_explanation |-> FALSE, question_type |-> "mc"],
                [num_shots |-> 0, allow_explanation |-> FALSE, question_type |-> "mc-separate"] >>

\* the evaluable rows of QUESTIONS_DF / QUESTIONS_METADATA: base question b1
\* has two sub-questions, b2 has one; all are in one stratum
QuestionIds == {<<"b1", 0>>, <<"b1", 1>>, <<"b2", 0>>}
Strata == {"s1"}
StratumOf(qid) == "s1"

Position(seq, x) == CHOOSE k \in 1..Len(seq) : seq[k] = x

\* line 254: question_id.split('_')[0]
BaseOf(qid) == qid[1]

\* each sub-question has two options; a permutation of them
OptionPermutations == {<<1, 2>>, <<2, 1>>}

\* load_results / load_metadata: the persisted table, or an empty one
load_results(file) == file

\* check_num_rows: the table already holds the configured number of rows
check_num_rows(results_df, target) == Len(results_df) >= target

\* results_df['question_id'].tolist() (line 242)
RecordedIds(results_df) == {results_df[k].question_id : k \in 1..Len(results_df)}

\* get_uncompleted_dfs: the rows whose question id is not among the recorded ids
get_uncompleted_dfs(all_ids, completed_ids) == all_ids \ completed_ids

\* line 247, groupby(strata).sample(n): n rows of every stratum that has
\* rows; pandas raises ValueError when a stratum has fewer than n rows
SampleRaises(uncompleted, n) ==
    \E s \in Strata :
        LET group == {q \in uncompleted : StratumOf(q) = s}
        IN group # {} /\ Cardinality(group) < n

\* the first n members of a set in the order of a ranking
FirstOf(rank, set, n) ==
    {q \in set : Cardinality({p \in set : Position(rank, p) < Position(rank, q)}) < n}

\* line 247 with random_state=42: the rows drawn from a table are fixed by
\* the table; rank says which
Sample(uncompleted, n, rank) ==
    UNION {FirstOf(rank, {q \in uncompleted : StratumOf(q) = s}, n) : s \in Strata}

\* the rankings considered: the rotations of one listing of the rows
Rotations(seq) ==
    {[k \in 1..Len(seq) |-> seq[((k + r - 1) % Len(seq)) + 1]] : r \in 0..(Len(seq) - 1)}
SampleRanks == Rotations(<< <<"b1", 0>>, <<"b1", 1>>, <<"b2", 0>> >>)

\* line 257: the set base_ids iterated in the order of this process
BaseOrders == {<<"b1", "b2">>, <<"b2", "b1">>}
RECURSIVE Filtered(_, _)
Filtered(seq, set) ==
    IF seq = <<>> THEN <<>>
    ELSE IF Head(seq) \in set THEN <<Head(seq)>> \o Filtered(Tail(seq), set)
    ELSE Filtered(Tail(seq), set)

\* get_test_questions: the sampled sub-questions of base_id, in order
TestQuestions(base_id, sampled) == {q \in sampled : BaseOf(q) = base_id}

\* the replies of the backend in the modes of the grid: the answer is the
\* most likely letter of the distribution returned with it
EvalReplies(kind) ==
    {r \in Replies(kind, 2) :
        kind = "answer" => r.probs = (IF r.answer = "A" THEN "p1" ELSE "p2")}

\* lines 62-93 / 101-130 in one piece: the records after the whole loop
RECURSIVE ResponseLoop(_, _, _, _, _, _)
ResponseLoop(hf, question_type, replies, i, outputs, parsed) ==
    IF i = Len(replies) THEN parsed
    ELSE LET kind == StepKind(hf, question_type, i)
             out2 == OutputsAfter(kind, replies[i + 1], outputs)
         IN ResponseLoop(hf, question_type, replies, i + 1, out2,
                         ParsedAfter(hf, kind, i, replies[i + 1], out2, parsed))

\* get_response(...) or get_response_hf(...): the returned value
EngineReturn(hf, question_type, replies) ==
    Transposed(ResponseLoop(hf, question_type, replies, 0, <<>>, <<>>))

\* whether get_response issues a request to the hosted service at all
IssuesRequest(question_type, n) ==
    \E i \in 0..(n - 1) : StepKindApi(question_type, i) # "none"

LetterIndex(letter) == CHOOSE j \in 1..Len(OPTIONS) : OPTIONS[j] = letter

\* permute_answer: each answer mapped back through its question's permutation
permute_answer(model_answers, permutations) ==
    [k \in 1..Len(model_answers) |-> OPTIONS[permutations[k][LetterIndex(model_answers[k])]]]

\* lines 153-171: the dict params after the call (the function returns params
\* itself: line 155, results = params)
create_results_dict(params, base_id, sub_id, permuted_answer, model_answer,
                    model_explanation, probabilities) ==
    [params EXCEPT !.question_id = <<base_id, sub_id>>,
                   !.permuted_answer = permuted_answer,
                   !.model_answer = model_answer,
                   !.model_explanation = model_explanation,
                   !.probabilities = probabilities]

\* lines 303-307: result_params = params.copy() with the task's fields
ResultParams(params) ==
    [question_type |-> params.question_type, question_id |-> <<"", 0>>,
     permuted_answer |-> "", model_answer |-> "", model_explanation |-> "",
     probabilities |-> ""]

\* lines 309-322: the list comprehension calls create_results_dict once per
\* permuted answer, every call on the one dict result_params, and collects
\* what it returns; the rows of the DataFrame are read from the list afterwards
ResultsRecords(result_params, base_id, explanations, answers, probabilities, permuted) ==
    LET k == Len(permuted)
        RECURSIVE after(_)
        after(j) ==
            IF j = 0 THEN result_params
            ELSE create_results_dict(after(j - 1), base_id, j - 1, permuted[j],
                                     answers[j], explanations[j], probabilities[j])
    IN [i \in 1..k |-> after(k)]

\* the new rows put in front of the table
ConcatNewRowsFirst(table, records) == records \o table

\* lines 322 and 332, pd.concat([table, DataFrame.from_records(records)],
\* ignore_index=True): the rows of the table, then the new rows
Concat(table, records) == table \o records

\* lines 324-331: one metadata row per permutation
MetadataRecords(base_id, permutations) ==
    [i \in 1..Len(permutations) |->
        [question_id |-> <<base_id, i - 1>>, permutation |-> permutations[i]]]

\* lines 166-173 as eval_models sees them (device cpu or cuda, so that
\* build_kwargs returns): "model", "false" for (False, False), or the
\* exception that leaves load_model_tokenizer
load_model_tokenizer(fs, tok, causal, fallback) ==
    IF ListdirOutcome(fs) # "ok" THEN ListdirOutcome(fs)
    ELSE LET r == load_model(fs, tok, causal, fallback)
         IN IF r = "model" THEN "model" ELSE "false"

LoadOutcomes ==
    {load_model_tokenizer(fs, tok, causal, fallback) :
        fs \in FileSystems, tok \in TokenizerOutcomes,
        causal \in CausalOutcomes, fallback \in FallbackOutcomes}

\* lines 189-192: what has been done for a model when the loop continues
\* because check_num_rows holds
EventsOnSkipClientFirst(events, model_name) == events \cup {<<"client", model_name>>}
EventsOnSkip(events, model_name) == events

NoLast == [base |-> "", ret |-> <<>>, permuted |-> <<>>, rows |-> <<>>, meta |-> <<>>]

EvalParked ==
    /\ e_pc = "off" /\ e_api = FALSE /\ e_run = 0 /\ e_mi = 0
    /\ e_target = 0 /\ e_num_sample = 0 /\ e_loadable = 0 /\ e_rank = <<>>
    /\ e_results_file = [m \in {} |-> <<>>] /\ e_metadata_file = [m \in {} |-> <<>>]
    /\ e_results_df = <<>> /\ e_results_metadata = <<>> /\ e_uncompleted = {}
    /\ e_pi = 0 /\ e_sampled = {} /\ e_order = <<>> /\ e_base_ids = <<>>
    /\ e_skipped = {} /\ e_events = {} /\ e_recorded = {} /\ e_last = NoLast
    /\ e_badreq = {} /\ e_error = None

\* no run yet, no file under output_path
EvalInit ==
    /\ e_pc = "idle"
    /\ e_api = FALSE
    /\ e_run = 0
    /\ e_target \in TargetChoices
    /\ e_num_sample \in 1..NumSample
    /\ e_loadable \in 1..NumModels
    /\ e_rank \in SampleRanks
    /\ e_mi = 0
    /\ e_results_file = [k \in 1..NumModels |-> <<>>]
    /\ e_metadata_file = [k \in 1..NumModels |-> <<>>]
    /\ e_results_df = <<>>
    /\ e_results_metadata = <<>>
    /\ e_uncompleted = {}
    /\ e_pi = 0
    /\ e_sampled = {}
    /\ e_order = <<>>
    /\ e_base_ids = <<>>
    /\ e_skipped = {}
    /\ e_events = {}
    /\ e_recorded = {}
    /\ e_last = NoLast
    /\ e_badreq = {}
    /\ e_error = None

\* run_evaluation lines 344-357 and eval_models lines 174-178: a run starts
\* (after the previous one ended or was aborted), hosted or local
EvalStartRun ==
    /\ e_pc \in {"idle", "raised"}
    /\ e_run < MaxRuns
    /\ e_run' = e_run + 1
    /\ e_api' \in BOOLEAN
    /\ e_order' \in BaseOrders
    /\ e_pc' = "model"
    /\ e_mi' = 1
    /\ e_results_df' = <<>>
    /\ e_results_metadata' = <<>>
    /\ e_uncompleted' = {}
    /\ e_pi' = 0
    /\ e_sampled' = {}
    /\ e_base_ids' = <<>>
    /\ e_skipped' = {}
    /\ e_events' = {}
    /\ e_recorded' = {}
    /\ e_last' = NoLast
    /\ e_badreq' = {}
    /\ e_error' = None
    /\ UNCHANGED <<e_target, e_num_sample, e_loadable, e_rank, e_results_file, e_metadata_file>>
    /\ UNCHANGED notEval

\* lines 186-192: the model has already been evaluated; continue
EvalSkipEvaluated ==
    /\ e_pc = "model"
    /\ e_mi <= NumModels
    /\ check_num_rows(load_results(e_results_file[e_mi]), e_target)
    /\ e_skipped' = e_skipped \cup {e_mi}
    /\ e_events' = EventsOnSkip(e_events, e_mi)
    /\ e_mi' = e_mi + 1
    /\ UNCHANGED <<e_pc, e_api, e_run, e_target, e_num_sample, e_loadable, e_rank, e_results_file, e_metadata_file, e_results_df,
                   e_results_metadata, e_uncompleted, e_pi, e_sampled, e_order,
                   e_base_ids, e_recorded, e_last, e_badreq, e_error>>
    /\ UNCHANGED notEval

\* lines 189-202: local path, load_model_tokenizer returns (False, False); continue
EvalLoadFails ==
    /\ e_pc = "model"
    /\ e_mi <= NumModels
    /\ ~check_num_rows(load_results(e_results_file[e_mi]), e_target)
    /\ ~e_api
    /\ "false" \in LoadOutcomes
    /\ e_events' = e_events \cup {<<"load", e_mi>>}
    /\ e_mi' = e_mi + 1
    /\ UNCHANGED <<e_pc, e_api, e_run, e_target, e_num_sample, e_loadable, e_rank, e_results_file, e_metadata_file, e_results_df,
                   e_results_metadata, e_uncompleted, e_pi, e_sampled, e_order,
                   e_base_ids, e_skipped, e_recorded, e_last, e_badreq, e_error>>
    /\ UNCHANGED notEval

\* lines 189-200: local path, load_model_tokenizer raises; nothing catches it
EvalLoadRaises ==
    /\ e_pc = "model"
    /\ e_mi <= NumModels
    /\ ~check_num_rows(load_results(e_results_file[e_mi]), e_target)
    /\ ~e_api
    /\ \E r \in LoadOutcomes \ {"model", "false"} : e_error' = r
    /\ e_events' = e_events \cup {<<"load", e_mi>>}
    /\ e_pc' = "raised"
    /\ UNCHANGED <<e_api, e_run, e_target, e_num_sample, e_loadable, e_rank, e_mi, e_results_file, e_metadata_file, e_results_df,
                   e_results_metadata, e_uncompleted, e_pi, e_sampled, e_order,
                   e_base_ids, e_skipped, e_recorded, e_last, e_badreq>>
    /\ UNCHANGED notEval

\* lines 189-242: tables loaded, model loaded or client constructed, the
\* uncompleted questions computed
EvalBeginModel ==
    /\ e_pc = "model"
    /\ e_mi <= NumModels
    /\ ~check_num_rows(load_results(e_results_file[e_mi]), e_target)
    /\ (~e_api => e_mi = e_loadable /\ "model" \in LoadOutcomes)
    /\ e_results_df' = load_results(e_results_file[e_mi])
    /\ e_results_metadata' = load_results(e_metadata_file[e_mi])
    /\ e_events' = e_events \cup {<<IF e_api THEN "client" ELSE "load", e_mi>>}
    /\ e_uncompleted' = get_uncompleted_dfs(QuestionIds, RecordedIds(e_results_df'))
    /\ e_recorded' = {BaseOf(q) : q \in RecordedIds(e_results_df')}
    /\ e_pi' = 1
    /\ e_pc' = "params"
    /\ e_last' = NoLast
    /\ UNCHANGED <<e_api, e_run, e_target, e_num_sample, e_loadable, e_rank, e_mi, e_results_file, e_metadata_file, e_sampled,
                   e_order, e_base_ids, e_skipped, e_badreq, e_error>>
    /\ UNCHANGED notEval

\* lines 245-254: the next parameter combination; sample and derive base ids
EvalSample ==
    /\ e_pc = "params"
    /\ e_pi <= Len(ParamGrid)
    /\ ~SampleRaises(e_uncompleted, e_num_sample)
    /\ e_sampled' = Sample(e_uncompleted, e_num_sample, e_rank)
    /\ e_base_ids' = Filtered(e_order, {BaseOf(q) : q \in e_sampled'})
    /\ e_pc' = "bases"
    /\ UNCHANGED <<e_api, e_run, e_target, e_num_sample, e_loadable, e_rank, e_mi, e_results_file, e_metadata_file, e_results_df,
                   e_results_metadata, e_uncompleted, e_pi, e_order, e_skipped, e_events,
                   e_recorded, e_last, e_badreq, e_error>>
    /\ UNCHANGED notEval

\* line 247: a stratum holds fewer rows than num_sample; ValueError
EvalSampleRaises ==
    /\ e_pc = "params"
    /\ e_pi <= Len(ParamGrid)
    /\ SampleRaises(e_uncompleted, e_num_sample)
    /\ e_error' = "ValueError"
    /\ e_pc' = "raised"
    /\ UNCHANGED <<e_api, e_run, e_target, e_num_sample, e_loadable, e_rank, e_mi, e_results_file, e_metadata_file, e_results_df,
                   e_results_metadata, e_uncompleted, e_pi, e_sampled, e_order,
                   e_base_ids, e_skipped, e_events, e_recorded, e_last, e_badreq>>
    /\ UNCHANGED notEval

\* line 259: the row '{base_id}_0' is not among the uncompleted rows;
\* to_dict('records')[0] raises IndexError
EvalTaskDataRaises ==
    /\ e_pc = "bases"
    /\ e_base_ids # <<>>
    /\ <<Head(e_base_ids), 0>> \notin e_uncompleted
    /\ e_error' = "IndexError"
    /\ e_pc' = "raised"
    /\ UNCHANGED <<e_api, e_run, e_target, e_num_sample, e_loadable, e_rank, e_mi, e_results_file, e_metadata_file, e_results_df,
                   e_results_metadata, e_uncompleted, e_pi, e_sampled, e_order,
                   e_base_ids, e_skipped, e_events, e_recorded, e_last, e_badreq>>
    /\ UNCHANGED notEval

\* lines 257-332: one base id, the engine returning three lists
EvalProcessBase ==
    /\ e_pc = "bases"
    /\ e_base_ids # <<>>
    /\ <<Head(e_base_ids), 0>> \in e_uncompleted
    /\ LET base_id == Head(e_base_ids)
           n == Cardinality(TestQuestions(base_id, e_sampled))
           params == ParamGrid[e_pi]
           kind == StepKind(~e_api, params.question_type, 0)
       IN \E replies \in [1..n -> EvalReplies(kind)], permutations \in [1..n -> OptionPermutations] :
            LET ret == EngineReturn(~e_api, params.question_type, replies)
            IN /\ Len(ret) = 3
               /\ LET permuted == permute_answer(ret[2], permutations)
                      results == ResultsRecords(ResultParams(params), base_id,
                                                ret[1], ret[2], ret[3], permuted)
                  IN /\ e_results_df' = Concat(e_results_df, results)
                     /\ e_results_metadata' =
                            Concat(e_results_metadata, MetadataRecords(base_id, permutations))
                     /\ e_last' = [base |-> base_id, ret |-> ret, permuted |-> permuted,
                                   rows |-> results,
                                   meta |-> MetadataRecords(base_id, permutations)]
    /\ e_events' = e_events \cup {<<"engine", e_mi, Head(e_base_ids)>>}
    /\ e_base_ids' = Tail(e_base_ids)
    /\ UNCHANGED <<e_pc, e_api, e_run, e_target, e_num_sample, e_loadable, e_rank, e_mi, e_results_file, e_metadata_file,
                   e_uncompleted, e_pi, e_sampled, e_order, e_skipped, e_recorded,
                   e_badreq, e_error>>
    /\ UNCHANGED notEval

\* lines 281-293: the hosted service rejects a request of this base id;
\* print and continue with the next base id
EvalBadRequest ==
    /\ e_pc = "bases"
    /\ e_base_ids # <<>>
    /\ <<Head(e_base_ids), 0>> \in e_uncompleted
    /\ e_api
    /\ IssuesRequest(ParamGrid[e_pi].question_type,
                     Cardinality(TestQuestions(Head(e_base_ids), e_sampled)))
    /\ e_events' = e_events \cup {<<"engine", e_mi, Head(e_base_ids)>>}
    /\ e_badreq' = e_badreq \cup {<<e_mi, e_pi, Head(e_base_ids)>>}
    /\ e_base_ids' = Tail(e_base_ids)
    /\ e_last' = NoLast
    /\ UNCHANGED <<e_pc, e_api, e_run, e_target, e_num_sample, e_loadable, e_rank, e_mi, e_results_file, e_metadata_file,
                   e_results_df, e_results_metadata, e_uncompleted, e_pi, e_sampled,
                   e_order, e_skipped, e_recorded, e_error>>
    /\ UNCHANGED notEval

\* lines 270 and 282: the engine returns a list that is not three lists (no
\* record was emitted); the unpacking raises ValueError, which nothing catches
EvalUnpackRaises ==
    /\ e_pc = "bases"
    /\ e_base_ids # <<>>
    /\ <<Head(e_base_ids), 0>> \in e_uncompleted
    /\ LET n == Cardinality(TestQuestions(Head(e_base_ids), e_sampled))
           kind == StepKind(~e_api, ParamGrid[e_pi].question_type, 0)
       IN \E replies \in [1..n -> EvalReplies(kind)] :
            Len(EngineReturn(~e_api, ParamGrid[e_pi].question_type, replies)) # 3
    /\ e_events' = e_events \cup {<<"engine", e_mi, Head(e_base_ids)>>}
    /\ e_error' = "ValueError"
    /\ e_pc' = "raised"
    /\ e_last' = NoLast
    /\ UNCHANGED <<e_api, e_run, e_target, e_num_sample, e_loadable, e_rank, e_mi, e_results_file, e_metadata_file, e_results_df,
                   e_results_metadata, e_uncompleted, e_pi, e_sampled, e_order,
                   e_base_ids, e_skipped, e_recorded, e_badreq>>
    /\ UNCHANGED notEval

\* line 257 exhausted: back to line 245 for the next combination
EvalNextParams ==
    /\ e_pc = "bases"
    /\ e_base_ids = <<>>
    /\ e_pi' = e_pi + 1
    /\ e_pc' = "params"
    /\ e_last' = NoLast
    /\ UNCHANGED <<e_api, e_run, e_target, e_num_sample, e_loadable, e_rank, e_mi, e_results_file, e_metadata_file, e_results_df,
                   e_results_metadata, e_uncompleted, e_sampled, e_order, e_base_ids,
                   e_skipped, e_events, e_recorded, e_badreq, e_error>>
    /\ UNCHANGED notEval

\* lines 337-341: the grid is exhausted; write both tables, next model
EvalSave ==
    /\ e_pc = "params"
    /\ e_pi > Len(ParamGrid)
    /\ e_results_file' = [e_results_file EXCEPT ![e_mi] = e_results_df]
    /\ e_metadata_file' = [e_metadata_file EXCEPT ![e_mi] = e_results_metadata]
    /\ e_events' = e_events \cup {<<"write", e_mi>>}
    /\ e_mi' = e_mi + 1
    /\ e_pc' = "model"
    /\ UNCHANGED <<e_api, e_run, e_target, e_num_sample, e_loadable, e_rank, e_results_df, e_results_metadata, e_uncompleted,
                   e_pi, e_sampled, e_order, e_base_ids, e_skipped, e_recorded,
                   e_last, e_badreq, e_error>>
    /\ UNCHANGED notEval

\* line 178 exhausted: eval_models returns
EvalEndRun ==
    /\ e_pc = "model"
    /\ e_mi > NumModels
    /\ e_pc' = "idle"
    /\ UNCHANGED <<e_api, e_run, e_target, e_num_sample, e_loadable, e_rank, e_mi, e_results_file, e_metadata_file, e_results_df,
                   e_results_metadata, e_uncompleted, e_pi, e_sampled, e_order,
                   e_base_ids, e_skipped, e_events, e_recorded, e_last, e_badreq,
                   e_error>>
    /\ UNCHANGED notEval

EvalNext ==
    \/ EvalStartRun \/ EvalSkipEvaluated \/ EvalLoadFails \/ EvalLoadRaises
    \/ EvalBeginModel \/ EvalSample \/ EvalSampleRaises \/ EvalTaskDataRaises
    \/ EvalProcessBase \/ EvalBadRequest \/ EvalUnpackRaises \/ EvalNextParams
    \/ EvalSave \/ EvalEndRun

(***************************************************************************)
(*                     exponential_backoff_decorator                       *)
(***************************************************************************)
MaxRetries == 3
MaxBaseDelay == 2
FuncValues == {"v1", "v2"}

RECURSIVE Pow2(_)
Pow2(n) == IF n = 0 THEN 1 ELSE 2 * Pow2(n - 1)

\* line 40: while retries < max_retries
RetryAllowedOffByOne(retries, max_retries) == retries <= max_retries
RetryAllowed(retries, max_retries) == retries < max_retries

\* line 47: delay = base_delay * 2 ** retries + random.uniform(0, 1)
\* (the jitter is drawn from its two end points)
BackoffDelay(base_delay, retries, jitter) == base_delay * Pow2(retries) + jitter

BackoffParked ==
    /\ b_pc = "off" /\ b_max_retries = 0 /\ b_base_delay = 0 /\ b_retries = 0
    /\ b_calls = 0 /\ b_raised = 0 /\ b_delay = 0 /\ b_result = "unset"

\* lines 38-39: wrapper(*args) entered, retries = 0
BackoffInit ==
    /\ b_pc = "loop"
    /\ b_max_retries \in 0..MaxRetries
    /\ b_base_delay \in 0..MaxBaseDelay
    /\ b_retries = 0
    /\ b_calls = 0
    /\ b_raised = 0
    /\ b_delay = 0
    /\ b_result = "unset"

\* lines 40-43: func returns; wrapper returns its result
BackoffCallReturns ==
    /\ b_pc = "loop"
    /\ RetryAllowed(b_retries, b_max_retries)
    /\ \E v \in FuncValues : b_result' = v
    /\ b_calls' = b_calls + 1
    /\ b_pc' = "returned"
    /\ UNCHANGED <<b_max_retries, b_base_delay, b_retries, b_raised, b_delay>>
    /\ UNCHANGED notBackoff

\* lines 40-42, 44-49: func raises an Exception; count it, sleep, loop again
BackoffCallRaises ==
    /\ b_pc = "loop"
    /\ RetryAllowed(b_retries, b_max_retries)
    /\ b_calls' = b_calls + 1
    /\ b_raised' = b_raised + 1
    /\ b_retries' = b_retries + 1
    /\ \E jitter \in 0..1 :
          b_delay' = BackoffDelay(b_base_delay, b_retries + 1, jitter)
    /\ UNCHANGED <<b_pc, b_max_retries, b_base_delay, b_result>>
    /\ UNCHANGED notBackoff

\* lines 50-51: the loop condition fails; print and fall off the end (None)
BackoffGiveUp ==
    /\ b_pc = "loop"
    /\ ~RetryAllowed(b_retries, b_max_retries)
    /\ b_result' = None
    /\ b_pc' = "returned"
    /\ UNCHANGED <<b_max_retries, b_base_delay, b_retries, b_calls, b_raised,
                   b_delay>>
    /\ UNCHANGED notBackoff

BackoffNext == BackoffCallReturns \/ BackoffCallRaises \/ BackoffGiveUp

InitBackoff == BackoffInit /\ AnswerParked /\ LoadParked /\ RespParked /\ EvalParked
SpecBackoff == InitBackoff /\ [][BackoffNext]_vars

InitAnswer == AnswerInit /\ BackoffParked /\ LoadParked /\ RespParked /\ EvalParked
SpecAnswer == InitAnswer /\ [][AnswerNext]_vars

InitLoad == LoadInit /\ BackoffParked /\ AnswerParked /\ RespParked /\ EvalParked
SpecLoad == InitLoad /\ [][LoadNext]_vars

InitResp == RespInit /\ BackoffParked /\ AnswerParked /\ LoadParked /\ EvalParked
SpecResp == InitResp /\ [][RespNext]_vars

InitEval == EvalInit /\ BackoffParked /\ AnswerParked /\ LoadParked /\ RespParked
SpecEval == InitEval /\ [][EvalNext]_vars

\* C9: a wrapped function that raises on every call is invoked exactly
\* max_retries times; the wrapper then returns None and raises nothing
\* (the wrapper has no raising exit: its only terminal position is "returned").
C9_AlwaysFailingInvokedMaxRetries ==
    (b_pc = "returned" /\ b_raised = b_calls)
        => (b_calls = b_max_retries /\ b_result = None)

\* C9 witness: three failing calls were made, then the wrapper gave up
C9_Witness ==
    /\ b_pc = "returned" /\ b_raised = b_calls
    /\ b_max_retries = 3 /\ b_calls = 3 /\ b_result = None

ValidTokenSet == {a_valid[k] : k \in 1..Len(a_valid)}

\* C10: whenever get_answer returns, the answer token and every key of the
\* returned distribution are elements of valid_tokens
C10_AnswerAndKeysAreValidTokens ==
    a_pc = "returned" =>
        (a_answer \in ValidTokenSet /\ DictKeys(a_dist) \subseteq ValidTokenSet)

\* C2: in a sequential mode, get_response and get_response_hf hold one
\* record per odd index passed and none for an even index, the record of
\* odd index i pairing the text produced at index i-1 with the answer and
\* the probabilities produced at index i; on return there are exactly
\* floor(n/2) records
C2_SequentialEmitsAtOddIndices ==
    (Sequential(r_question_type) /\ r_pc \in {"loop", "returned"}) =>
        /\ Len(r_parsed) = r_i \div 2
        /\ \A k \in 1..Len(r_parsed) :
              r_parsed[k] = << r_steps[2 * k - 1].reply.text,
                               r_steps[2 * k].reply.answer,
                               r_steps[2 * k].reply.probs >>
        /\ \A j \in 1..Len(r_steps) :
              r_steps[j].kind = IF (j - 1) % 2 = 0 THEN "explain" ELSE "answer_after"
        /\ (r_pc = "returned" =>
              /\ Len(r_parsed) = r_n \div 2
              /\ r_ret = Transposed(r_parsed))

\* C2 witness: four questions asked of the hosted service in sequential-hidden
\* mode gave two records, with different explanations at indices 0 and 2
C2_Witness ==
    /\ r_pc = "returned" /\ ~r_hf /\ r_question_type = "sequential-hidden"
    /\ r_n = 4 /\ Len(r_parsed) = 2
    /\ r_parsed[1][1] = "e1" /\ r_parsed[2][1] = "e2"
    /\ Len(r_ret) = 3 /\ Len(r_ret[1]) = 2

CheckpointMissing ==
    ~l_fs.dir \/ ~l_fs.snapshots \/ l_fs.entries = 0 \/ ~l_fs.entry_exists

\* C8: for device cpu or cuda, a call that meets a missing checkpoint, or in
\* which a loading step raised, ends by returning (False, False) and never
\* by raising
C8_MissingCheckpointReturnsFalsePair ==
    (/\ l_device \in {"cpu", "cuda"}
     /\ l_pc \in {"returned", "raised"}
     /\ (CheckpointMissing \/ l_caught # None \/ l_error # None))
        => (l_pc = "returned" /\ l_result = <<FALSE, FALSE>>)

\* C1: the k rows appended for a base id whose engine call returned k answers
\* are the last k rows of the results table, row i carries the question id
\* base_(i-1) (0-based in the code) and the permuted answer, model answer,
\* explanation and probabilities of sub-question i
C1_RowsCarryTheirOwnSubQuestion ==
    e_last.base # "" =>
        LET k == Len(e_last.ret[2])
            n == Len(e_results_df)
        IN /\ Len(e_last.rows) = k
           /\ n >= k
           /\ \A i \in 1..k :
                 /\ e_results_df[n - k + i] = e_last.rows[i]
                 /\ e_last.rows[i].question_id = <<e_last.base, i - 1>>
                 /\ e_last.rows[i].permuted_answer = e_last.permuted[i]
                 /\ e_last.rows[i].model_explanation = e_last.ret[1][i]
                 /\ e_last.rows[i].model_answer = e_last.ret[2][i]
                 /\ e_last.rows[i].probabilities = e_last.ret[3][i]

\* C3: a model skipped in this run because its results table meets the row
\* count has had no client constructed, no model loaded, no engine call and
\* no file written in the run, its table still meets the row count, and the
\* loop has moved past it
C3_SkippedModelIsUntouched ==
    \A model \in e_skipped :
        /\ check_num_rows(load_results(e_results_file[model]), e_target)
        /\ e_mi > model
        /\ <<"client", model>> \notin e_events
        /\ <<"load", model>> \notin e_events
        /\ <<"write", model>> \notin e_events
        /\ \A b \in {BaseOf(q) : q \in QuestionIds} : <<"engine", model, b>> \notin e_events

\* C3 witness: the first model was skipped with a full table and the run went
\* on to call the engine for the second model
C3_Witness ==
    /\ 1 \in e_skipped
    /\ Len(e_results_file[1]) >= e_target
    /\ \E b \in {BaseOf(q) : q \in QuestionIds} : <<"engine", 2, b>> \in e_events

\* C4: no two rows of a model's persisted metadata table have the same
\* (question_id, permutation) pair
C4_NoDuplicateIdPermutation ==
    \A model \in 1..NumModels :
        \A j, k \in 1..Len(e_metadata_file[model]) :
            (/\ j # k
             /\ e_metadata_file[model][j].question_id = e_metadata_file[model][k].question_id)
                => e_metadata_file[model][j].permutation # e_metadata_file[model][k].permutation

\* C5: while a model is being evaluated, the engine has been called in this
\* run for no base id that has a row in the results table loaded for it
C5_RecordedBaseNotReprocessed ==
    e_pc \in {"params", "bases"} =>
        \A b \in e_recorded : <<"engine", e_mi, b>> \notin e_events

\* C6: a model for which a request was rejected as a bad request has its
\* tables written once the loop has left that model or the run is over
C6_BadRequestStillPersists ==
    \A t \in e_badreq :
        (e_pc \in {"idle", "raised"} \/ e_mi > t[1]) => <<"write", t[1]>> \in e_events

\* C7: a run on the hosted path against empty tables, in which every backend
\* call succeeds or is rejected as a bad request, is not left by an exception
C7_NoExceptionLeavesHostedRun ==
    (e_api /\ e_run = 1) => (e_pc # "raised" /\ e_error = None)

\* whether some candidate, upper-cased, is a prefix of some valid token (line 108)
CandidateMatches(valid_tokens, cands) ==
    \E k \in 1..Len(cands), v \in 1..Len(valid_tokens) :
        StartsWith(valid_tokens[v], Upper(cands[k].token))

\* C11: a call whose candidates (at least one) match no valid token ends by
\* returning, never by raising, and every value of the returned distribution
\* is 0
C11_NoMatchReturnsZeroDistribution ==
    (/\ a_pc \in {"returned", "raised"}
     /\ a_cands # <<>>
     /\ ~CandidateMatches(a_valid, a_cands))
        => (/\ a_pc = "returned"
            /\ \A k \in 1..Len(a_dist) : a_dist[k].val = 0)

\* C12: while a model is being evaluated, every metadata row appended so far
\* is in the model's persisted metadata file: the file equals the in-memory
\* metadata table after each processed base id
C12_MetadataPersistedAfterEveryBatch ==
    e_pc \in {"params", "bases"} => e_metadata_file[e_mi] = e_results_metadata

\* C13: the options build_kwargs returned: for cpu, float32 and nothing
\* else; for cuda, float16, with device_map and max_memory present exactly
\* when num_gpus > 1, one cap per device 0..num_gpus-1; without an explicit
\* cap "sequential" and 85% of a device's free memory, with one that cap for
\* every device
C13_BuildKwargsOptions ==
    (l_kwargs # NoKwargs /\ l_device \in {"cpu", "cuda"}) =>
        /\ (l_device = "cpu" => l_kwargs = Kwargs("float32"))
        /\ (l_device = "cuda" =>
              /\ l_kwargs.torch_dtype = "float16"
              /\ ("device_map" \in l_kwargs.keys <=> l_num_gpus > 1)
              /\ ("max_memory" \in l_kwargs.keys <=> l_num_gpus > 1)
              /\ (l_num_gpus > 1 =>
                    /\ DOMAIN l_kwargs.max_memory = 0..(l_num_gpus - 1)
                    /\ (l_max_gpu_mem = NoCap =>
                          /\ l_kwargs.device_map = "sequential"
                          /\ \A g \in 0..(l_num_gpus - 1) :
                                \E free \in FreeGiB : l_kwargs.max_memory[g] = CapOfFree(free))
                    /\ (l_max_gpu_mem # NoCap =>
                          \A g \in 0..(l_num_gpus - 1) :
                              l_kwargs.max_memory[g] = l_max_gpu_mem)))

\* C14: with a device other than cpu and cuda the call never gets past
\* build_kwargs: it ends by raising ValueError, with no options built, no
\* directory listed, no model loaded and no pair returned
C14_InvalidDeviceRaisesBeforeLoading ==
    l_device \notin {"cpu", "cuda"} =>
        /\ l_pc \in {"off", "build_kwargs", "raised"}
        /\ (l_pc = "raised" => l_error = "ValueError")
        /\ l_kwargs = NoKwargs
        /\ l_result = <<>>
        /\ l_caught = None
        /\ ~l_moved

\* C14 witness: device tpu, an intact checkpoint on disk, and the call has
\* raised ValueError
C14_Witness ==
    /\ l_device = "tpu"
    /\ l_fs.dir /\ l_fs.snapshots /\ l_fs.entries = 1 /\ l_fs.entry_exists
    /\ l_pc = "raised"
    /\ l_error = "ValueError"

\* C15: what get_response / get_response_hf returns is three sequences, each
\* as long as the number of records emitted (three empty ones when no
\* record was emitted)
C15_ReturnsThreeEqualSequences ==
    r_pc = "returned" =>
        /\ Len(r_ret) = 3
        /\ \A j \in 1..Len(r_ret) : Len(r_ret[j]) = Len(r_parsed)

\* C16: the metadata rows appended for a processed base id are as many as the
\* results rows appended for it, and row by row they carry the same question id
C16_MetadataRowsMatchResultsRows ==
    e_last.base # "" =>
        /\ Len(e_last.meta) = Len(e_last.rows)
        /\ \A i \in 1..Len(e_last.meta) :
              (i <= Len(e_last.rows) =>
                  e_last.meta[i].question_id = e_last.rows[i].question_id)

\* the steps that append a record (lines 74, 81, 93 and 110, 121, 130)
EmitsRecord(kind) == kind \in {"answer", "explain_answer", "answer_after"}

\* C17: in the modes mc, explanation, sequential-hidden and sequential-shown
\* every step taken by one engine is the step the other engine takes at that
\* index: the same kind of step, a record emitted or not alike, and at an
\* answer step the option list of the same index
C17_EnginesRunSameProtocol ==
    (/\ r_pc \in {"loop", "returned"}
     /\ r_question_type \in {"mc", "explanation", "sequential-hidden", "sequential-shown"})
        => \A j \in 1..Len(r_steps) :
              LET other == StepKind(~r_hf, r_question_type, j - 1)
              IN /\ r_steps[j].kind = other
                 /\ (EmitsRecord(r_steps[j].kind) <=> EmitsRecord(other))
                 /\ (EmitsRecord(other) =>
                        r_steps[j].opt = OptionIndex(~r_hf, other, j - 1))

IsPrefix(s, t) == Len(s) <= Len(t) /\ SubSeq(t, 1, Len(s)) = s

GridIndex(question_type) ==
    CHOOSE k \in 1..Len(ParamGrid) : ParamGrid[k].question_type = question_type

\* while a model is being evaluated: the in-memory tables start with the
\* rows loaded from the model's files, and the results rows appended since
\* are grouped by parameter combination in grid order and, within a
\* combination, by base id in the iteration order of the run
AppendedRowsOrdered ==
    e_pc \in {"params", "bases"} =>
        /\ IsPrefix(e_results_file[e_mi], e_results_df)
        /\ IsPrefix(e_metadata_file[e_mi], e_results_metadata)
        /\ \A j, k \in (Len(e_results_file[e_mi]) + 1)..Len(e_results_df) :
              j < k =>
                 /\ GridIndex(e_results_df[j].question_type)
                        <= GridIndex(e_results_df[k].question_type)
                 /\ (e_results_df[j].question_type = e_results_df[k].question_type =>
                        Position(e_order, BaseOf(e_results_df[j].question_id))
                            <= Position(e_order, BaseOf(e_results_df[k].question_id)))

\* a step of a model's evaluation keeps every row of the in-memory tables in
\* place; a processed base id adds one block of rows of that base id and of
\* the current combination at the end; the save writes the in-memory tables,
\* loaded rows first, and touches no file of another model
AppendOnlyStep ==
    e_pc \in {"params", "bases"} =>
        /\ IsPrefix(e_results_df, e_results_df')
        /\ IsPrefix(e_results_metadata, e_results_metadata')
        /\ (e_base_ids' # e_base_ids /\ e_pc' = "bases" /\ e_last' # NoLast =>
              /\ e_results_df' = e_results_df \o e_last'.rows
              /\ e_results_metadata' = e_results_metadata \o e_last'.meta
              /\ e_last'.rows # <<>>
              /\ \A i \in 1..Len(e_last'.rows) :
                    /\ BaseOf(e_last'.rows[i].question_id) = Head(e_base_ids)
                    /\ e_last'.rows[i].question_type = ParamGrid[e_pi].question_type
              /\ \A i \in 1..Len(e_last'.meta) :
                    BaseOf(e_last'.meta[i].question_id) = Head(e_base_ids))
        /\ (e_pc' = "model" =>
              /\ e_results_file'[e_mi] = e_results_df
              /\ e_metadata_file'[e_mi] = e_results_metadata
              /\ IsPrefix(e_results_file[e_mi], e_results_file'[e_mi])
              /\ IsPrefix(e_metadata_file[e_mi], e_metadata_file'[e_mi])
              /\ \A other \in 1..NumModels \ {e_mi} :
                    /\ e_results_file'[other] = e_results_file[other]
                    /\ e_metadata_file'[other] = e_metadata_file[other])
        /\ (e_pc' # "model" =>
              /\ e_results_file' = e_results_file
              /\ e_metadata_file' = e_metadata_file)

\* C18: within a model's evaluation the in-memory results and metadata tables
\* only grow at the end, one block per base id in iteration order, the
\* blocks of a parameter combination before those of the next, and what is
\* persisted for the model is the loaded rows followed by the appended rows
C18_TablesAppendOnlyAndOrdered == []AppendedRowsOrdered /\ [][AppendOnlyStep]_vars

\* C18 witness: a second run has loaded four rows of a model, appended the
\* blocks of two base ids under both combinations, and written the eight rows
C18_Witness ==
    /\ e_run = 2 /\ e_pc = "model"
    /\ <<"write", e_loadable>> \in e_events
    /\ Len(e_results_file[e_loadable]) = 8
    /\ Len(e_metadata_file[e_loadable]) = 8
    /\ {BaseOf(e_results_file[e_loadable][k].question_id) : k \in 5..8} = {"b1", "b2"}

\* valid token number v is matched by one of the first n candidates
Received(v, n) ==
    \E k \in 1..n : k <= Len(a_cands) /\ StartsWith(a_valid[v], Upper(a_cands[k].token))

\* C19: the scan goes on exactly while some valid token has no value and
\* candidates remain: it is not at a further candidate once every valid token
\* has been matched, it has not stopped before the last candidate with a
\* valid token unmatched, and a matched valid token is a key of the output
C19_ScanStopsWhenAllValidTokensHaveValues ==
    /\ (a_pc = "scan" /\ a_i <= Len(a_cands) =>
          \E v \in 1..Len(a_valid) : ~Received(v, a_i - 1))
    /\ (a_pc \in {"normalize", "returned", "raised"} /\ a_i < Len(a_cands) =>
          \A v \in 1..Len(a_valid) : Received(v, a_i))
    /\ (a_pc \in {"normalize", "returned", "raised"} =>
          \A v \in 1..Len(a_valid) :
              Received(v, a_i) => a_valid[v] \in DictKeys(a_output))

\* the replies of the backend calls of the current attempt, by index
AttemptReplies == [j \in 1..Len(r_steps) |-> r_steps[j].reply]

\* in get_response, every index passed in the current attempt had its
\* backend call in this attempt, and the records held (and returned) are
\* those a call without any rate-limit error computes from these replies
RecordsOfCurrentAttempt ==
    (~r_hf /\ r_pc \in {"loop", "returned"}) =>
        /\ Len(r_steps) = r_i
        /\ r_parsed = ResponseLoop(FALSE, r_question_type, AttemptReplies, 0, <<>>, <<>>)
        /\ (r_pc = "returned" =>
              /\ r_i = r_n
              /\ r_ret = Transposed(r_parsed))

\* a rate-limit error starts the body again at index 0 with empty outputs
\* and records and neither returns nor raises; otherwise the index moves on
\* by one, with one backend step per index
RetryRestartsFromZero ==
    /\ r_attempts' \in {r_attempts, r_attempts + 1}
    /\ (r_attempts' = r_attempts + 1 =>
          /\ r_pc = "loop" /\ r_pc' = "loop"
          /\ r_i' = 0
          /\ r_outputs' = <<>>
          /\ r_parsed' = <<>>
          /\ r_steps' = <<>>
          /\ r_ret' = r_ret
          /\ r_error' = None)
    /\ (r_attempts' = r_attempts /\ r_i' # r_i =>
          /\ r_i' = r_i + 1
          /\ Len(r_steps') = Len(r_steps) + 1)

\* C20: after a rate-limit error inside get_response the body runs again from
\* index 0 with nothing kept, so that the records returned are those of the
\* last attempt alone and the calls of the earlier indices are made again;
\* a rate-limit error never ends the call
C20_RateLimitRetryStartsOver == []RecordsOfCurrentAttempt /\ [][RetryRestartsFromZero]_vars

\* C20 witness: three mc questions, one rate-limit error, and the second
\* attempt returned three records
C20_Witness ==
    /\ ~r_hf /\ r_question_type = "mc" /\ r_n = 3
    /\ r_attempts = 2
    /\ r_pc = "returned"
    /\ Len(r_ret) = 3 /\ Len(r_ret[2]) = 3

=============================================================================
